---- MODULE Spec2Model ----
(***************************************************************************)
(* DRPObject (packages/object/src/index.ts): the object engine that turns  *)
(* intercepted local calls into vertices of a hash graph, merges remote    *)
(* vertices, and caches the DRP and ACL state at every vertex.             *)
(*                                                                         *)
(* Two replicas of one object are modelled.  "p2" always registers a user  *)
(* DRP; "p1" is built either with the same DRP or without one (ACL-only).  *)
(* The hash graph, the ACL and the user DRP live outside index.ts; they    *)
(* are modelled from their specification.                                  *)
(***************************************************************************)
EXTENDS Integers, Sequences, FiniteSets, TLC

\* ------------------------------------------------------------------ bounds
MaxVertices == 2
MaxTime == 1
MaxBatch == 2
MaxSubs == 1

\* ------------------------------------------------------------- the replicas
\* Peers hold a replica; Writers are the peers the ACL starts with ("p3" is a
\* remote writer whose replica is not modelled).
Peers == {"p1", "p2"}
Writers == {"p1", "p2", "p3"}
Admins == {"p1"}
DrpTypeDRP == "DRP"
DrpTypeACL == "ACL"

\* `undefined` operation of a manually crafted vertex
NoOperation == [drpType |-> "undefined", opType |-> "undefined", value |-> <<>>]

\* the sentinel operation of the root vertex
RootOperation == [drpType |-> "", opType |-> "-1", value |-> <<>>]

RootTimestamp == 0 - 1

\* --------------------------------------------------------------- computeHash
\* The digest is modelled as the serialized preimage itself: equal digests
\* exactly for equal (peerId, operation, deps, timestamp).
computeHash(peerId, operation, deps, timestamp) ==
    <<peerId, operation, deps, timestamp>>

rootHash == computeHash("", RootOperation, <<>>, RootTimestamp)

rootVertex ==
    [hash |-> rootHash, peerId |-> "", operation |-> RootOperation,
     dependencies |-> <<>>, timestamp |-> RootTimestamp]

newVertex(peerId, operation, dependencies, timestamp) ==
    [hash |-> computeHash(peerId, operation, dependencies, timestamp),
     peerId |-> peerId, operation |-> operation,
     dependencies |-> dependencies, timestamp |-> timestamp]

\* ------------------------------------------------- lexicographic hash order
StrRank(s) ==
    CASE s = "" -> 0
      [] s = "p1" -> 1
      [] s = "p2" -> 2
      [] s = "p3" -> 0
      [] s = "A" -> 3
      [] s = "B" -> 4
      [] OTHER -> 5

OpTypeRank(t) ==
    CASE t = "grant" -> 0
      [] t = "write" -> 1
      [] t = "revoke" -> 2
      [] t = "query_digest" -> 3
      [] OTHER -> 4

ValueRank(value) ==
    IF Len(value) = 0 THEN 0
    ELSE IF Len(value) = 1 THEN StrRank(value[1])
    ELSE 6 * StrRank(value[1]) + StrRank(value[2])

\* the leading part of a digest, as a number
HeadRank(h) ==
    ((OpTypeRank(h[2].opType) * 36 + ValueRank(h[2].value)) * 3
        + (2 - StrRank(h[1]))) * 8 + (h[4] + 2)

RECURSIVE HashLess(_, _)
RECURSIVE DepsLess(_, _)
HashLess(a, b) ==
    IF HeadRank(a) # HeadRank(b) THEN HeadRank(a) < HeadRank(b)
    ELSE DepsLess(a[3], b[3])

DepsLess(x, y) ==
    IF Len(y) = 0 THEN FALSE
    ELSE IF Len(x) = 0 THEN TRUE
    ELSE IF Head(x) # Head(y) THEN HashLess(Head(x), Head(y))
    ELSE DepsLess(Tail(x), Tail(y))

MinHash(S) == CHOOSE h \in S : \A g \in S \ {h} : HashLess(h, g)

RECURSIVE SortHashes(_)
SortFrom(S, least) == <<least>> \o SortHashes(S \ {least})

SortHashes(S) ==
    IF S = {} THEN <<>> ELSE SortFrom(S, MinHash(S))

Range(s) == {s[i] : i \in 1..Len(s)}

\* ------------------------------------------------ user DRP and ObjectACL
\* Objects are maps from attribute name to value.  The user DRP is a
\* register with a memoized digest; the ACL keeps the writer set.
OriginalDRP == [k \in {"value", "memo"} |-> IF k = "value" THEN "" ELSE FALSE]

OriginalACL ==
    [k \in {"permissionless", "writers"} |->
        IF k = "permissionless" THEN FALSE ELSE Writers]

Threw(obj) == [threw |-> TRUE, obj |-> obj]
Done(obj) == [threw |-> FALSE, obj |-> obj]

\* the methods of the user DRP, applied to the object `drp`
DRPMethod(drp, opType, value) ==
    CASE opType = "write" /\ Len(value) = 1 ->
            Done([drp EXCEPT !["value"] = value[1], !["memo"] = FALSE])
      [] opType = "query_read" -> Done(drp)
      [] opType = "query_digest" -> Done([drp EXCEPT !["memo"] = TRUE])
      [] OTHER -> Threw(drp)

\* the methods of the ObjectACL, applied to the object `acl`
ACLMethod(acl, opType, value) ==
    CASE opType = "grant" /\ Len(value) = 2 ->
            IF value[1] \in Admins
            THEN Done([acl EXCEPT !["writers"] = @ \cup {value[2]}])
            ELSE Threw(acl)
      [] opType = "revoke" /\ Len(value) = 2 ->
            IF value[1] \in Admins /\ value[2] \notin Admins
            THEN Done([acl EXCEPT !["writers"] = @ \ {value[2]}])
            ELSE Threw(acl)
      [] opType = "query_isWriter" -> Done(acl)
      [] opType = "query_getFinalitySigners" -> Done(acl)
      [] OTHER -> Threw(acl)

query_isWriter(acl, peerId) == acl["permissionless"] \/ peerId \in acl["writers"]

query_getFinalitySigners(acl) == acl["writers"]

\* resolveConflicts of the user DRP on an ordered pair of operations:
\* of two concurrent writes of different values, the write of "B" wins
ResolveConflictsDRP(left, right) ==
    IF left.opType # "write" \/ right.opType # "write" \/ left.value = right.value
        THEN "NoConflict"
    ELSE IF left.value = <<"B">> THEN "DropRight"
    ELSE IF right.value = <<"B">> THEN "DropLeft"
    ELSE "NoConflict"

\* resolveConflicts of the ACL (revoke wins)
ResolveConflictsACL(left, right) ==
    IF left.opType = right.opType \/ Len(left.value) # 2 \/ Len(right.value) # 2
        THEN "NoConflict"
    ELSE IF left.value[2] # right.value[2] THEN "NoConflict"
    ELSE IF left.opType = "revoke" THEN "DropRight"
    ELSE "DropLeft"

\* ---------------------------------------------------------------- HashGraph
\* A graph is the insertion-ordered sequence of its vertices.
Hashes(G) == {G[i].hash : i \in 1..Len(G)}

VertexOf(G, h) == G[CHOOSE i \in 1..Len(G) : G[i].hash = h]

DepsOf(G, h) == Range(VertexOf(G, h).dependencies) \cap Hashes(G)

RECURSIVE AncestorsIncl(_, _)
AncestorsIncl(G, h) ==
    {h} \cup UNION {AncestorsIncl(G, d) : d \in DepsOf(G, h)}

\* add_vertex: insert v, drop its dependencies from the frontier, add v
addVertex(G, frontier, v) ==
    [hg |-> Append(G, v),
     frontier |-> (frontier \ Range(v.dependencies)) \cup {v.hash}]

getFrontier(frontier) == SortHashes(frontier)

\* the vertices every head descends from
CommonAncestors(G, heads) ==
    {c \in Hashes(G) : \A h \in heads : c \in AncestorsIncl(G, h)}

\* the common ancestor no other common ancestor descends from
LowestOf(G, common) ==
    MinHash({c \in common : \A d \in common \ {c} : c \notin AncestorsIncl(G, d)})

LcaAndSubgraph(G, heads, lca) ==
    [lca |-> lca,
     subgraph |-> {x \in UNION {AncestorsIncl(G, h) : h \in heads} :
                     x # lca /\ lca \in AncestorsIncl(G, x)}]

\* lowest common ancestor of several heads, and the vertices between it
\* (exclusive) and the heads (inclusive)
lowestCommonAncestorMultipleVertices(G, heads) ==
    LcaAndSubgraph(G, heads, LowestOf(G, CommonAncestors(G, heads)))

resolveConflicts(G, a, b) ==
    LET left == VertexOf(G, a).operation
        right == VertexOf(G, b).operation
    IN IF left.drpType = DrpTypeACL /\ right.drpType = DrpTypeACL
           THEN ResolveConflictsACL(left, right)
       ELSE IF left.drpType = DrpTypeDRP /\ right.drpType = DrpTypeDRP
           THEN ResolveConflictsDRP(left, right)
       ELSE "NoConflict"

\* a loses to b among mutually concurrent vertices (PAIRWISE semantics)
LosesTo(G, a, b) ==
    IF HashLess(a, b) THEN resolveConflicts(G, a, b) = "DropLeft"
    ELSE resolveConflicts(G, b, a) = "DropRight"

RECURSIVE OpsOf(_, _)
OpsOf(G, hs) ==
    IF hs = <<>> THEN <<>>
    ELSE <<VertexOf(G, Head(hs)).operation>> \o OpsOf(G, Tail(hs))

\* the vertices of the subgraph with no dependency left in it
Ready(G, subgraph) == {h \in subgraph : DepsOf(G, h) \cap subgraph = {}}

\* the ready vertices no other ready vertex wins against
Kept(G, ready) == {h \in ready : \A w \in ready \ {h} : ~LosesTo(G, h, w)}

RECURSIVE linearizeOperations(_, _)
LinearizeLayer(G, subgraph, ready) ==
    OpsOf(G, SortHashes(Kept(G, ready))) \o linearizeOperations(G, subgraph \ ready)

linearizeOperations(G, subgraph) ==
    IF subgraph = {} THEN <<>>
    ELSE LinearizeLayer(G, subgraph, Ready(G, subgraph))

\* ---------------------------------------------------------------- DRPObject
\* _getDRPState: the DRPState of an object, one entry per attribute
_getDRPState(drp) ==
    LET keys == DOMAIN drp
        order == IF "value" \in keys THEN <<"value", "memo">>
                 ELSE <<"permissionless", "writers">>
    IN [i \in 1..Len(order) |-> [key |-> order[i], value |-> drp[order[i]]]]

\* `for (const entry of state.state) drp[entry.key] = entry.value`
LoadState(drp, state) ==
    [k \in DOMAIN drp \cup {state[i].key : i \in 1..Len(state)} |->
        IF \E i \in 1..Len(state) : state[i].key = k
        THEN state[CHOOSE i \in 1..Len(state) : state[i].key = k].value
        ELSE drp[k]]

\* _applyOperation on an object of the given kind
_applyOperation(kind, drp, operation) ==
    IF kind = DrpTypeDRP
    THEN DRPMethod(drp, operation.opType, operation.value)
    ELSE ACLMethod(drp, operation.opType, operation.value)

\* replay of the linearized operations of one kind, stopping at a throw
RECURSIVE Replay(_, _, _)
Replay(kind, drp, ops) ==
    IF ops = <<>> THEN Done(drp)
    ELSE IF Head(ops).drpType # kind THEN Replay(kind, drp, Tail(ops))
    ELSE LET r == _applyOperation(kind, drp, Head(ops))
         IN IF r.threw THEN r ELSE Replay(kind, r.obj, Tail(ops))

LcaAndOperations(G, r) ==
    [lca |-> r.lca, linearizedOperations |-> linearizeOperations(G, r.subgraph)]

computeLCA(G, vertexDependencies) ==
    IF Len(vertexDependencies) = 1
    THEN [lca |-> vertexDependencies[1], linearizedOperations |-> <<>>]
    ELSE LcaAndOperations(
            G, lowestCommonAncestorMultipleVertices(G, Range(vertexDependencies)))

\* `if (vertexOperation && vertexOperation.drpType === kind)` after the replay
ApplyVertexOperation(kind, replayed, vertexOperation) ==
    IF replayed.threw THEN replayed
    ELSE IF vertexOperation.drpType = kind
         THEN _applyOperation(kind, replayed.obj, vertexOperation)
         ELSE replayed

\* the reconstruction shared by _computeDRP and _computeObjectACL
ComputeKind(kind, original, states, preCompute, vertexOperation) ==
    IF preCompute.lca \notin DOMAIN states THEN Threw(original)
    ELSE ApplyVertexOperation(
            kind,
            Replay(kind, LoadState(original, states[preCompute.lca]),
                   preCompute.linearizedOperations),
            vertexOperation)

_computeDRP_NoOverride(o, preCompute, vertexOperation) ==
    IF ~o.hasDrp THEN Threw(OriginalDRP)
    ELSE ComputeKind(DrpTypeDRP, OriginalDRP, o.drpStates, preCompute, NoOperation)

\* _computeDRP; `preCompute` is computeLCA(deps) when the caller passes none,
\* `vertexOperation` is NoOperation when the caller passes none
_computeDRP(o, preCompute, vertexOperation) ==
    IF ~o.hasDrp THEN Threw(OriginalDRP)
    ELSE ComputeKind(DrpTypeDRP, OriginalDRP, o.drpStates, preCompute, vertexOperation)

_computeObjectACL(o, preCompute, vertexOperation) ==
    ComputeKind(DrpTypeACL, OriginalACL, o.aclStates, preCompute, vertexOperation)

\* `acl.query_isWriter(peerId)` on the reconstructed ACL
IsWriterIn(acl, peerId) ==
    IF acl.threw THEN Threw(FALSE) ELSE Done(query_isWriter(acl.obj, peerId))

\* _checkWriterPermission
_checkWriterPermission(o, peerId, deps) ==
    IF ~o.hasDrp THEN Done(query_isWriter(o.acl, peerId))
    ELSE IsWriterIn(_computeObjectACL(o, computeLCA(o.hg, deps), NoOperation),
                    peerId)

\* `if (!this._checkWriterPermission(...)) throw`
Permitted(w) == ~w.threw /\ w.obj

\* the dependency loop without the timestamp comparison
validateVertex_NoDepTimestamp(o, vertex, clock) ==
    /\ vertex.hash = computeHash(vertex.peerId, vertex.operation,
                                 vertex.dependencies, vertex.timestamp)
    /\ Len(vertex.dependencies) # 0
    /\ \A i \in 1..Len(vertex.dependencies) :
          vertex.dependencies[i] \in Hashes(o.hg)
    /\ vertex.timestamp <= clock
    /\ Permitted(_checkWriterPermission(o, vertex.peerId, vertex.dependencies))

validateVertex_NoFutureCheck(o, vertex, clock) ==
    /\ vertex.hash = computeHash(vertex.peerId, vertex.operation,
                                 vertex.dependencies, vertex.timestamp)
    /\ Len(vertex.dependencies) # 0
    /\ \A i \in 1..Len(vertex.dependencies) :
          /\ vertex.dependencies[i] \in Hashes(o.hg)
          /\ VertexOf(o.hg, vertex.dependencies[i]).timestamp <= vertex.timestamp
    /\ Permitted(_checkWriterPermission(o, vertex.peerId, vertex.dependencies))

\* validateVertex: TRUE when no rule throws
validateVertex(o, vertex, clock) ==
    /\ vertex.hash = computeHash(vertex.peerId, vertex.operation,
                                 vertex.dependencies, vertex.timestamp)
    /\ Len(vertex.dependencies) # 0
    /\ \A i \in 1..Len(vertex.dependencies) :
          /\ vertex.dependencies[i] \in Hashes(o.hg)
          /\ VertexOf(o.hg, vertex.dependencies[i]).timestamp <= vertex.timestamp
    /\ vertex.timestamp <= clock
    /\ Permitted(_checkWriterPermission(o, vertex.peerId, vertex.dependencies))

\* _initializeFinalityState
_initializeFinalityState(o, hash) ==
    IF hash \in DOMAIN o.aclStates
    THEN [o EXCEPT !.finality =
            [h \in DOMAIN @ \cup {hash} |->
                IF h = hash
                THEN [signers |-> query_getFinalitySigners(
                                    LoadState(OriginalACL, o.aclStates[hash])),
                      attestations |-> {}]
                ELSE @[h]]]
    ELSE o

SetState(states, hash, state) ==
    [h \in DOMAIN states \cup {hash} |-> IF h = hash THEN state ELSE states[h]]

\* _notify: one callback invocation per subscription
_notify(o, origin, vertices) ==
    [i \in 1..o.subscriptions |-> [origin |-> origin, vertices |-> vertices]]

\* constructor
NewObject(hasDrp) ==
    [hasDrp |-> hasDrp,
     hg |-> <<rootVertex>>,
     frontier |-> {rootHash},
     vertices |-> <<rootVertex>>,
     drpStates |-> [h \in {rootHash} |->
                      IF hasDrp THEN _getDRPState(OriginalDRP) ELSE <<>>],
     aclStates |-> [h \in {rootHash} |-> _getDRPState(OriginalACL)],
     finality |-> [h \in {} |-> {}],
     drp |-> OriginalDRP,
     acl |-> OriginalACL,
     subscriptions |-> 0]

\* the clone compared by reference
StateChanged_ByReference(preOperationDRP, drp) ==
    \E key \in DOMAIN preOperationDRP : TRUE

\* `every` in place of `some`
StateChanged_Every(preOperationDRP, drp) ==
    \A key \in DOMAIN preOperationDRP : preOperationDRP[key] # drp[key]

\* `Object.keys(pre).some(key => !deepEqual(pre[key], drp[key]))`
StateChanged(preOperationDRP, drp) ==
    \E key \in DOMAIN preOperationDRP : preOperationDRP[key] # drp[key]

Outcome(o, ret, notes) == [o |-> o, ret |-> ret, notes |-> notes]

\* the dependencies of the vertex left in the frontier
AddToFrontier_KeepDependencies(o, vertex) ==
    [o EXCEPT !.hg = addVertex(o.hg, o.frontier, vertex).hg,
              !.frontier = @ \cup {vertex.hash}]

\* `this.hashGraph.addToFrontier(vertex)`
AddToFrontier(o, vertex) ==
    [o EXCEPT !.hg = addVertex(o.hg, o.frontier, vertex).hg,
              !.frontier = addVertex(o.hg, o.frontier, vertex).frontier]

\* the states fetched at the dependency not cloned: storing the states of the
\* vertex writes through to the entries they were reconstructed from
CallFnFinish_SharedState(o1, vertex, drp, drpType, other) ==
    LET acl == IF drpType = DrpTypeDRP THEN other.obj ELSE drp
        own == IF drpType = DrpTypeDRP THEN drp ELSE other.obj
        o2 == [o1 EXCEPT
                 !.aclStates = SetState(SetState(@, vertex.dependencies[1],
                                                 _getDRPState(acl)),
                                        vertex.hash, _getDRPState(acl)),
                 !.drpStates = SetState(SetState(@, vertex.dependencies[1],
                                                 _getDRPState(own)),
                                        vertex.hash, _getDRPState(own))]
        o4 == [_initializeFinalityState(o2, vertex.hash) EXCEPT
                 !.vertices = Append(@, vertex)]
    IN IF other.threw
       THEN Outcome(o1, "exception", <<>>)
       ELSE Outcome(IF drpType = DrpTypeDRP THEN [o4 EXCEPT !.drp = drp]
                    ELSE [o4 EXCEPT !.acl = drp],
                    "result", _notify(o4, "callFn", <<vertex>>))

\* the rest of callFn once both states of the vertex are known: finality
\* entry, vertices list, callbacks, rebase of the live object
CallFnFinish(o1, vertex, drp, drpType, other) ==
    LET o2 == IF drpType = DrpTypeDRP
              THEN [o1 EXCEPT
                      !.aclStates = SetState(@, vertex.hash, _getDRPState(other.obj)),
                      !.drpStates = SetState(@, vertex.hash, _getDRPState(drp))]
              ELSE [o1 EXCEPT
                      !.aclStates = SetState(@, vertex.hash, _getDRPState(drp)),
                      !.drpStates = SetState(@, vertex.hash, _getDRPState(other.obj))]
        o4 == [_initializeFinalityState(o2, vertex.hash) EXCEPT
                 !.vertices = Append(@, vertex)]
    IN IF other.threw
       THEN IF drpType = DrpTypeDRP
            THEN Outcome(o1, "exception", <<>>)
            ELSE Outcome([o1 EXCEPT !.aclStates =
                            SetState(@, vertex.hash, _getDRPState(drp))],
                         "exception", <<>>)
       ELSE Outcome(IF drpType = DrpTypeDRP THEN [o4 EXCEPT !.drp = drp]
                    ELSE [o4 EXCEPT !.acl = drp],
                    "result", _notify(o4, "callFn", <<vertex>>))

\* the state of the other kind at the new vertex: the ACL state for a DRP
\* operation, the DRP state (after the ACL state is stored) for an ACL one
OtherState(o1, vertex, drp, drpType, pre) ==
    IF drpType = DrpTypeDRP
    THEN _computeObjectACL(o1, pre, vertex.operation)
    ELSE _computeDRP([o1 EXCEPT !.aclStates =
                        SetState(@, vertex.hash, _getDRPState(drp))],
                     pre, vertex.operation)

CallFnSetStates(o1, vertex, drp, drpType) ==
    CallFnFinish(o1, vertex, drp, drpType,
                 OtherState(o1, vertex, drp, drpType,
                            computeLCA(o1.hg, vertex.dependencies)))

\* callFn from the point where the vertex exists (lines 202-218)
CallFnAdmit(o, vertex, drp, drpType) ==
    CallFnSetStates(AddToFrontier(o, vertex), vertex, drp, drpType)

\* `isACL ? this._computeObjectACL(deps) : this._computeDRP(deps)`
PreOperation(o, drpType, pre) ==
    IF drpType = DrpTypeACL THEN _computeObjectACL(o, pre, NoOperation)
    ELSE _computeDRP(o, pre, NoOperation)

\* callFn after the operation was applied to the clone
CallFnApplied(o, peerId, vertexOperation, vertexDependencies, clock, pre, applied) ==
    IF applied.threw THEN Outcome(o, "undefined", <<>>)
    ELSE IF ~StateChanged(pre, applied.obj) THEN Outcome(o, "result", <<>>)
    ELSE CallFnAdmit(o,
             newVertex(peerId, vertexOperation, vertexDependencies, clock),
             applied.obj, vertexOperation.drpType)

\* callFn after the pre-image was reconstructed
CallFnOn(o, peerId, vertexOperation, vertexDependencies, clock, preOperationDRP) ==
    IF preOperationDRP.threw THEN Outcome(o, "exception", <<>>)
    ELSE CallFnApplied(o, peerId, vertexOperation, vertexDependencies, clock,
                       preOperationDRP.obj,
                       _applyOperation(vertexOperation.drpType, preOperationDRP.obj,
                                       vertexOperation))

CallFnApply(o, peerId, vertexOperation, vertexDependencies, clock) ==
    CallFnOn(o, peerId, vertexOperation, vertexDependencies, clock,
             PreOperation(o, vertexOperation.drpType,
                          computeLCA(o.hg, vertexDependencies)))

\* callFn(fn, args, drpType) on the object of peer `peerId` at time `clock`
callFn(o, peerId, fn, args, drpType, clock) ==
    CallFnApply(o, peerId, [drpType |-> drpType, opType |-> fn, value |-> args],
                getFrontier(o.frontier), clock)

Skipped_NoPresenceCheck(o, vertex) == vertex.operation = NoOperation

\* the guard of the merge loops (lines 276 and 314)
Skipped(o, vertex) ==
    vertex.operation = NoOperation \/ vertex.hash \in Hashes(o.hg)

\* the try block after both states of the vertex were computed: store them,
\* add the vertex, create its finality entry
MergeOneStates(acc, vertex, drp, acl) ==
    LET o == acc.o
        isDRP == vertex.operation.drpType = DrpTypeDRP
        rejected == [acc EXCEPT !.missing = Append(@, vertex.hash)]
        oAcl == [o EXCEPT !.aclStates = SetState(@, vertex.hash, _getDRPState(acl.obj))]
        oBoth == [o EXCEPT !.aclStates = SetState(@, vertex.hash, _getDRPState(acl.obj)),
                           !.drpStates = SetState(@, vertex.hash, _getDRPState(drp.obj))]
    IN IF isDRP /\ (drp.threw \/ acl.threw) THEN rejected
       ELSE IF ~isDRP /\ acl.threw THEN rejected
       ELSE IF ~isDRP /\ drp.threw THEN [rejected EXCEPT !.o = oAcl]
       ELSE [acc EXCEPT !.o = _initializeFinalityState(AddToFrontier(oBoth, vertex),
                                                       vertex.hash),
                        !.newVertices = Append(@, vertex)]

MergeOneAt(acc, vertex, preComputeLca) ==
    MergeOneStates(acc, vertex,
                   _computeDRP(acc.o, preComputeLca, vertex.operation),
                   _computeObjectACL(acc.o, preComputeLca, vertex.operation))

\* the try block of _mergeWithDrp for one vertex (lines 281-295)
MergeOneWithDrp(acc, vertex, clock) ==
    IF ~validateVertex(acc.o, vertex, clock)
    THEN [acc EXCEPT !.missing = Append(@, vertex.hash)]
    ELSE MergeOneAt(acc, vertex, computeLCA(acc.o.hg, vertex.dependencies))

RECURSIVE MergeLoopWithDrp(_, _, _)
\* `break` at the first rejected vertex in place of going on with the batch
MergeLoopWithDrp_StopAtFirst(acc, vertices, clock) ==
    IF vertices = <<>> THEN acc
    ELSE IF Skipped(acc.o, Head(vertices))
         THEN MergeLoopWithDrp(acc, Tail(vertices), clock)
    ELSE IF ~validateVertex(acc.o, Head(vertices), clock)
         THEN [acc EXCEPT !.missing = Append(@, Head(vertices).hash)]
    ELSE MergeLoopWithDrp(MergeOneWithDrp(acc, Head(vertices), clock),
                          Tail(vertices), clock)

MergeLoopWithDrp(acc, vertices, clock) ==
    IF vertices = <<>> THEN acc
    ELSE MergeLoopWithDrp(
            IF Skipped(acc.o, Head(vertices)) THEN acc
            ELSE MergeOneWithDrp(acc, Head(vertices), clock),
            Tail(vertices), clock)

\* write back the attributes the live object has (lines 545-549, 558-562)
WriteBack(current, newState) ==
    [k \in DOMAIN current |->
        IF \E i \in 1..Len(newState) : newState[i].key = k
        THEN newState[CHOOSE i \in 1..Len(newState) : newState[i].key = k].value
        ELSE current[k]]

MergeResult(o, threw, missing, newVertices, notes) ==
    [o |-> o, threw |-> threw, merged |-> missing = <<>>, missing |-> missing,
     newVertices |-> newVertices, notes |-> notes]


\* the live DRP advanced by the admitted operations in admission order
MergeWriteBack_Incremental(o1, acc, acl, drp) ==
    LET o3 == [o1 EXCEPT
                 !.acl = WriteBack(@, _getDRPState(acl.obj)),
                 !.drp = Replay(DrpTypeDRP, @,
                                [i \in 1..Len(acc.newVertices) |->
                                    acc.newVertices[i].operation]).obj]
    IN MergeResult(o3, FALSE, acc.missing, acc.newVertices,
                   _notify(o3, "merge", acc.newVertices))

\* _updateObjectACLState, _updateDRPState and _notify (lines 301-304)
MergeWriteBack(o1, acc, acl, drp) ==
    LET o2 == [o1 EXCEPT !.acl = WriteBack(@, _getDRPState(acl.obj))]
        o3 == [o1 EXCEPT !.acl = WriteBack(@, _getDRPState(acl.obj)),
                         !.drp = WriteBack(@, _getDRPState(drp.obj))]
    IN IF acl.threw THEN MergeResult(o1, TRUE, acc.missing, acc.newVertices, <<>>)
       ELSE IF drp.threw THEN MergeResult(o2, TRUE, acc.missing, acc.newVertices, <<>>)
       ELSE MergeResult(o3, FALSE, acc.missing, acc.newVertices,
                        _notify(o3, "merge", acc.newVertices))

\* the states at the frontier after the loop
MergeRefreshAt(o1, acc, pre) ==
    MergeWriteBack(o1, acc, _computeObjectACL(o1, pre, NoOperation),
                   _computeDRP(o1, pre, NoOperation))

\* `this.vertices = this.hashGraph.getAllVertices()` and the refresh
MergeRefresh(acc) ==
    MergeRefreshAt([acc.o EXCEPT !.vertices = acc.o.hg], acc,
                   computeLCA(acc.o.hg, getFrontier(acc.o.frontier)))

_mergeWithDrp(o, vertices, clock) ==
    MergeRefresh(MergeLoopWithDrp([o |-> o, missing |-> <<>>, newVertices |-> <<>>],
                                  vertices, clock))

RECURSIVE MergeLoopWithoutDrp(_, _, _)
MergeLoopWithoutDrp(acc, vertices, clock) ==
    IF vertices = <<>> THEN acc
    ELSE MergeLoopWithoutDrp(
            IF Skipped(acc.o, Head(vertices)) THEN acc
            ELSE IF ~validateVertex(acc.o, Head(vertices), clock)
                 THEN [acc EXCEPT !.missing = Append(@, Head(vertices).hash)]
            ELSE [acc EXCEPT !.o = AddToFrontier(acc.o, Head(vertices)),
                             !.newVertices = Append(@, Head(vertices))],
            Tail(vertices), clock)

\* `return [missing.length === 0, missing]`
Unrefreshed(acc) == MergeResult(acc.o, FALSE, acc.missing, acc.newVertices, <<>>)

_mergeWithoutDrp(o, vertices, clock) ==
    Unrefreshed(MergeLoopWithoutDrp([o |-> o, missing |-> <<>>, newVertices |-> <<>>],
                                    vertices, clock))

merge(o, vertices, clock) ==
    IF ~o.hasDrp THEN _mergeWithoutDrp(o, vertices, clock)
    ELSE _mergeWithDrp(o, vertices, clock)

\* ------------------------------------------------------ interception shim
QueryNames ==
    {"query_read", "query_digest", "query_isWriter", "query_getFinalitySigners"}

IsQueryName_Exact(propKey) == propKey = "query_"

\* `propKey.startsWith("query_")`
IsQueryName(propKey) == propKey \in QueryNames

\* Reflect.apply on the live target
PassThrough(o, vertexType, propKey, args) ==
    IF vertexType = DrpTypeDRP
    THEN Outcome([o EXCEPT !.drp = DRPMethod(@, propKey, args).obj], "result", <<>>)
    ELSE Outcome([o EXCEPT !.acl = ACLMethod(@, propKey, args).obj], "result", <<>>)

\* the apply trap of proxyDRPHandler for a call from outside the engine
proxyDRPHandler(o, peerId, vertexType, propKey, args, clock) ==
    IF IsQueryName(propKey) THEN PassThrough(o, vertexType, propKey, args)
    ELSE callFn(o, peerId, propKey, args, vertexType, clock)

\* -------------------------------------------------------------- the system
VARIABLES obj, now, out

vars == <<obj, now, out>>

\* every vertex some replica holds, the root excepted
Pool == (UNION {Range(obj[p].hg) : p \in Peers}) \ {rootVertex}

\* manually crafted vertices a remote peer may send
ForgedOperation == [drpType |-> DrpTypeDRP, opType |-> "write", value |-> <<"A">>]
TamperedHash == computeHash("p2", ForgedOperation, <<rootHash>>, MaxTime + 2)
TamperedVertex ==
    [newVertex("p2", ForgedOperation, <<rootHash>>, 0) EXCEPT !.hash = TamperedHash]
OplessVertex == newVertex("p2", NoOperation, <<rootHash>>, 0)
EmptyDepsVertex == newVertex("p2", ForgedOperation, <<>>, 0)
UnknownDepVertex == newVertex("p2", ForgedOperation, <<TamperedHash>>, 0)
StaleVertex == newVertex("p2", ForgedOperation, <<rootHash>>, RootTimestamp - 1)
FutureVertex == newVertex("p2", ForgedOperation, <<rootHash>>, MaxTime + 1)
NonWriterVertex == newVertex("p4", ForgedOperation, <<rootHash>>, 0)

\* a vertex the remote writer created on the root
RemoteVertex == newVertex("p3", ForgedOperation, <<rootHash>>, 0)

Forged ==
    {TamperedVertex, OplessVertex, EmptyDepsVertex, UnknownDepVertex,
     StaleVertex, FutureVertex, NonWriterVertex}

BatchesOver(S) == UNION {[1..n -> S] : n \in 1..MaxBatch}

\* the valid vertices in flight: those some replica holds and, while the
\* bound on vertices allows, the remote writer's
Network ==
    Pool \cup (IF Cardinality(Pool) < MaxVertices THEN {RemoteVertex} ELSE {})

\* the batches the network delivers
Delivered == BatchesOver(Network) \cup {<<f>> : f \in Forged}

\* every batch considered for a replica in the current state: the delivered
\* ones, and a crafted vertex next to a valid one
Batches ==
    Delivered \cup {<<v, f>> : v \in Network, f \in Forged}
              \cup {<<f, v>> : f \in Forged, v \in Network}

\* the arguments a caller passes to the methods of the DRP and of the ACL
DRPCalls == {<<"write", <<"A">>>>, <<"write", <<"B">>>>, <<"clear", <<>>>>}
ACLCalls(p) == {<<"grant", <<p, "p2">>>>, <<"revoke", <<p, "p2">>>>,
                <<"revoke", <<p, "p1">>>>}
DRPQueries == {<<"query_read", <<>>>>}
ACLQueries == {<<"query_isWriter", <<"p2">>>>}

\* the replicas whose embedder registers callbacks
Subscribers == {"p1"}

\* what the last operation gave back: its kind, how it returned, the merged
\* flag of a merge, and the callbacks it invoked
Out(op, ret, merged, notes) ==
    [op |-> op, ret |-> ret, merged |-> merged, notes |-> notes]

Init ==
    /\ obj \in {[p \in Peers |-> NewObject(p = "p2" \/ b)] : b \in BOOLEAN}
    /\ now = 0
    /\ out = Out("init", "", TRUE, <<>>)

\* the object and the result an intercepted call leaves
Returned(p, label, r) ==
    /\ obj' = [obj EXCEPT ![p] = r.o]
    /\ out' = Out(label, r.ret, TRUE, r.notes)
    /\ now' = now

\* an intercepted call on obj[p].drp or obj[p].acl
Intercept(p, kind, call, label) ==
    Returned(p, label, proxyDRPHandler(obj[p], p, kind, call[1], call[2], now))

CallDRP(p) ==
    /\ obj[p].hasDrp
    /\ Cardinality(Pool) < MaxVertices
    /\ \E call \in DRPCalls : Intercept(p, DrpTypeDRP, call, "callFn")

CallACL(p) ==
    /\ Cardinality(Pool) < MaxVertices
    /\ \E call \in ACLCalls(p) : Intercept(p, DrpTypeACL, call, "callFn")

QueryDRP(p) ==
    /\ obj[p].hasDrp
    /\ \E call \in DRPQueries : Intercept(p, DrpTypeDRP, call, "query")

QueryACL(p) ==
    \E call \in ACLQueries : Intercept(p, DrpTypeACL, call, "query")

\* the object and the result a merge leaves
MergeReturned(p, r) ==
    /\ obj' = [obj EXCEPT ![p] = r.o]
    /\ out' = Out("merge", IF r.threw THEN "exception" ELSE "result",
                  r.merged, r.notes)
    /\ now' = now

Merge(p) ==
    \E batch \in Delivered : MergeReturned(p, merge(obj[p], batch, now))

Subscribe(p) ==
    /\ p \in Subscribers
    /\ obj[p].subscriptions < MaxSubs
    /\ obj' = [obj EXCEPT ![p].subscriptions = @ + 1]
    /\ out' = Out("subscribe", "result", TRUE, <<>>)
    /\ now' = now

Tick ==
    /\ now < MaxTime
    /\ now' = now + 1
    /\ out' = Out("tick", "", TRUE, <<>>)
    /\ obj' = obj

Next ==
    \/ \E p \in Peers : CallDRP(p)
    \/ \E p \in Peers : CallACL(p)
    \/ \E p \in Peers : QueryDRP(p)
    \/ \E p \in Peers : QueryACL(p)
    \/ \E p \in Peers : Merge(p)
    \/ \E p \in Peers : Subscribe(p)
    \/ Tick

Spec == Init /\ [][Next]_vars

\* a query method that memoizes into its receiver
QueryDigest(p) ==
    /\ obj[p].hasDrp
    /\ Intercept(p, DrpTypeDRP, <<"query_digest", <<>>>>, "query")

NextQuery == Next \/ \E p \in Peers : QueryDigest(p)

SpecQuery == Init /\ [][NextQuery]_vars

\* ------------------------------------------------------------------ claims
\* the reconstruction at the current frontier
FrontierLCA(o) == computeLCA(o.hg, getFrontier(o.frontier))
DRPAtFrontier(o) == _computeDRP(o, FrontierLCA(o), NoOperation)
ACLAtFrontier(o) == _computeObjectACL(o, FrontierLCA(o), NoOperation)

BothHaveDrp == obj["p1"].hasDrp /\ obj["p2"].hasDrp

\* C1: two replicas built with the same DRP and ACL that hold the same vertex
\* set, however it was admitted, reconstruct the same DRP state at the frontier.
C1_Convergence ==
    (BothHaveDrp /\ Hashes(obj["p1"].hg) = Hashes(obj["p2"].hg)) =>
        /\ ~DRPAtFrontier(obj["p1"]).threw
        /\ DRPAtFrontier(obj["p1"]) = DRPAtFrontier(obj["p2"])

\* the replicas hold the same two concurrent vertices, admitted in opposite orders
C1_Witness ==
    /\ BothHaveDrp
    /\ Hashes(obj["p1"].hg) = Hashes(obj["p2"].hg)
    /\ Len(obj["p1"].hg) = 3
    /\ obj["p1"].hg # obj["p2"].hg
    /\ Cardinality(obj["p1"].frontier) = 2
    /\ DRPAtFrontier(obj["p1"]).obj["value"] = "B"

\* C2 as stated: merging a batch twice leaves the object as merging it once does.
C2_MergeIdempotent ==
    \A p \in Peers : \A batch \in Delivered :
        LET m1 == merge(obj[p], batch, now)
        IN merge(m1.o, batch, now).o = m1.o

\* C2 amended: once a merge has returned all_merged = true, merging the same
\* batch again, then or later, leaves the whole object unchanged and returns
\* (true, no missing vertex).
C2_MergeIdempotentOnceMerged ==
    \A p \in Peers : \A batch \in Delivered : \A later \in now..MaxTime :
        LET m1 == merge(obj[p], batch, now)
            m2 == merge(m1.o, batch, later)
        IN (~m1.threw /\ m1.merged) =>
              /\ m2.o = m1.o
              /\ ~m2.threw /\ m2.merged /\ m2.missing = <<>>
              /\ m2.newVertices = <<>>

\* a merge has just admitted vertices with all_merged = true, and merging the
\* same vertices again changes nothing
C2_Witness ==
    /\ out.op = "merge" /\ out.merged
    /\ Len(out.notes) = 1
    /\ Len(out.notes[1].vertices) = 2
    /\ merge(obj["p1"], out.notes[1].vertices, now).o = obj["p1"]

\* what C3 compares: the live state, the frontier, and the cached states at
\* the hashes both outcomes hold
SameOutcome(a, b) ==
    /\ a.drp = b.drp /\ a.acl = b.acl
    /\ a.frontier = b.frontier
    /\ \A h \in DOMAIN a.drpStates \cap DOMAIN b.drpStates :
          a.drpStates[h] = b.drpStates[h]
    /\ \A h \in DOMAIN a.aclStates \cap DOMAIN b.aclStates :
          a.aclStates[h] = b.aclStates[h]

\* merge(A) on the object o, and merge(A); merge(B), for all batches A, B of Bs
MergeOnce(o, Bs) == {[A |-> A, m |-> merge(o, A, now)] : A \in Bs}
MergeTwice(once, Bs) ==
    {[A |-> x.A, B |-> B, first |-> x.m.merged, m |-> merge(x.m.o, B, now)] :
        x \in once, B \in Bs}

\* C3 as stated: merge(A); merge(B) and merge(B); merge(A) give the same live
\* state, frontier and cached states at common hashes.
C3_MergeCommutes ==
    \A p \in Peers :
        LET Bs == BatchesOver(Network)
            twice == MergeTwice(MergeOnce(obj[p], Bs), Bs)
        IN \A ab \in twice, ba \in twice :
              (ab.A = ba.B /\ ab.B = ba.A) => SameOutcome(ab.m.o, ba.m.o)

\* C3 amended: when each of the four merge calls returns all_merged = true,
\* merge(A); merge(B) and merge(B); merge(A) give the same live state, the same
\* frontier and the same cached states at common hashes.
C3_MergeCommutesWhenAllMerged ==
    \A p \in Peers :
        LET Bs == BatchesOver(Network)
            twice == MergeTwice(MergeOnce(obj[p], Bs), Bs)
        IN \A ab \in twice, ba \in twice :
              (/\ ab.A = ba.B /\ ab.B = ba.A
               /\ ab.first /\ ab.m.merged /\ ba.first /\ ba.m.merged)
              => /\ SameOutcome(ab.m.o, ba.m.o)
                 /\ Hashes(ab.m.o.hg) = Hashes(ba.m.o.hg)

\* a replica has merged, in two merges that returned all_merged = true, two
\* concurrent writes of other peers; the write admitted first wins
C3_Witness ==
    /\ out.op = "merge" /\ out.merged
    /\ \E p \in Peers :
          /\ obj[p].hasDrp
          /\ Len(obj[p].hg) = 3
          /\ \A i \in 2..3 : /\ obj[p].hg[i].peerId # p
                             /\ obj[p].hg[i].dependencies = <<rootHash>>
          /\ obj[p].hg[2].operation.value = <<"B">>
          /\ obj[p].hg[3].operation.value = <<"A">>
          /\ obj[p].drp["value"] = "B"

\* the validation rules of a vertex against the graph G, the writer check apart
FailsRule(G, v, clock) ==
    \/ v.hash # computeHash(v.peerId, v.operation, v.dependencies, v.timestamp)
    \/ v.dependencies = <<>>
    \/ \E d \in Range(v.dependencies) : d \notin Hashes(G)
    \/ \E d \in Range(v.dependencies) \cap Hashes(G) :
          VertexOf(G, d).timestamp > v.timestamp
    \/ v.timestamp > clock

\* the writer check of a vertex whose dependencies the object holds
FailsWriterCheck(o, v) ==
    /\ v.dependencies # <<>>
    /\ Range(v.dependencies) \subseteq Hashes(o.hg)
    /\ LET w == _checkWriterPermission(o, v.peerId, v.dependencies)
       IN w.threw \/ ~w.obj

\* C4: merge does not throw; a vertex of the batch that is not already present,
\* carries an operation and fails a validation rule is not added to the graph
\* and its hash is in missing, so all_merged is false; all_merged is true
\* exactly when missing is empty.
C4_InvalidVerticesAreMissing ==
    \A p \in Peers : \A batch \in Batches :
        LET m == merge(obj[p], batch, now)
        IN /\ ~m.threw
           /\ m.merged <=> m.missing = <<>>
           /\ \A i \in 1..Len(batch) :
                 (/\ batch[i].operation # NoOperation
                  /\ batch[i].hash \notin Hashes(obj[p].hg)
                  /\ \/ FailsRule(m.o.hg, batch[i], now)
                     \/ FailsWriterCheck(m.o, batch[i]))
                 => /\ batch[i].hash \notin Hashes(m.o.hg)
                    /\ batch[i].hash \in Range(m.missing)
                    /\ ~m.merged

\* a merge of a crafted vertex has just returned all_merged = false, and each
\* kind of crafted vertex is rejected by the replica
C4_Witness ==
    /\ out.op = "merge" /\ ~out.merged /\ out.ret = "result"
    /\ \A f \in Forged \ {OplessVertex} : \A p \in Peers :
          merge(obj[p], <<f>>, now).missing = <<f.hash>>
    /\ \E p \in Peers : Len(obj[p].hg) > 1

\* the ACL state the engine caches at vertex h when it holds every cached state
RECURSIVE ACLStateAt(_, _)
ACLStateAt(G, h) ==
    IF h = rootHash THEN _getDRPState(OriginalACL)
    ELSE LET pre == computeLCA(G, VertexOf(G, h).dependencies)
         IN _getDRPState(
                ComputeKind(DrpTypeACL, OriginalACL,
                            [x \in {pre.lca} |-> ACLStateAt(G, pre.lca)],
                            pre, VertexOf(G, h).operation).obj)

\* the ACL reconstructed at a dependency set
ACLAtCut(G, deps) ==
    LET pre == computeLCA(G, deps)
    IN ComputeKind(DrpTypeACL, OriginalACL,
                   [x \in {pre.lca} |-> ACLStateAt(G, pre.lca)],
                   pre, NoOperation).obj

\* the vertices a step adds to the graph of p, in admission order
Admitted(p) == SubSeq(obj'[p].hg, Len(obj[p].hg) + 1, Len(obj'[p].hg))

\* C5: merge admits a vertex only if the ACL reconstructed at the vertex's own
\* dependencies answers is_writer(vertex.peerId) = true, with a user DRP
\* registered and in ACL-only mode.
C5_WriterGating ==
    [][out'.op = "merge" =>
        \A p \in Peers : \A i \in 1..Len(Admitted(p)) :
            query_isWriter(ACLAtCut(obj'[p].hg, Admitted(p)[i].dependencies),
                           Admitted(p)[i].peerId)]_vars

\* C5 for the replicas that registered a user DRP
C5_WriterGatingWithDrp ==
    [][out'.op = "merge" =>
        \A p \in Peers : \A i \in 1..Len(Admitted(p)) :
            obj[p].hasDrp =>
                query_isWriter(ACLAtCut(obj'[p].hg, Admitted(p)[i].dependencies),
                               Admitted(p)[i].peerId)]_vars

\* C6: every vertex of the hash graph has an entry in drpStates and in aclStates.
C6_CachesComplete ==
    \A p \in Peers :
        /\ Hashes(obj[p].hg) \subseteq DOMAIN obj[p].drpStates
        /\ Hashes(obj[p].hg) \subseteq DOMAIN obj[p].aclStates

\* C6 for the replicas that registered a user DRP
C6_CachesCompleteWithDrp ==
    \A p \in Peers :
        obj[p].hasDrp =>
            /\ Hashes(obj[p].hg) \subseteq DOMAIN obj[p].drpStates
            /\ Hashes(obj[p].hg) \subseteq DOMAIN obj[p].aclStates

\* C7: a call of a query_ method leaves the vertices list, the hash graph, the
\* frontier, both caches and the finality store unchanged and notifies nobody.
C7_QueryFrame ==
    [][out'.op = "query" =>
        /\ out'.notes = <<>>
        /\ \A p \in Peers :
              /\ obj'[p].vertices = obj[p].vertices
              /\ obj'[p].hg = obj[p].hg
              /\ obj'[p].frontier = obj[p].frontier
              /\ obj'[p].drpStates = obj[p].drpStates
              /\ obj'[p].aclStates = obj[p].aclStates
              /\ obj'[p].finality = obj[p].finality]_vars

\* a query has just memoized into the live DRP of a replica that holds vertices
C7_Witness ==
    /\ out.op = "query"
    /\ \E p \in Peers : obj[p].hasDrp /\ obj[p].drp["memo"] /\ Len(obj[p].hg) > 1

\* the mutating calls an embedder makes on the replica of p
LocalCalls(p) ==
    {<<DrpTypeACL, c>> : c \in ACLCalls(p)}
        \cup (IF obj[p].hasDrp THEN {<<DrpTypeDRP, c>> : c \in DRPCalls} ELSE {})

PreImage(o, kind) ==
    IF kind = DrpTypeACL THEN ACLAtFrontier(o) ELSE DRPAtFrontier(o)

CallOperation(c) == [drpType |-> c[1], opType |-> c[2][1], value |-> c[2][2]]

\* C8: an intercepted call whose method throws, whose opType is unknown, or
\* that leaves the reconstructed object equal to its pre-image changes nothing
\* of the object and notifies nobody; when the operation throws the caller gets
\* the undefined result.
C8_NoOpCalls ==
    \A p \in Peers : \A c \in LocalCalls(p) :
        LET pre == PreImage(obj[p], c[1])
            applied == _applyOperation(c[1], pre.obj, CallOperation(c))
            r == callFn(obj[p], p, c[2][1], c[2][2], c[1], now)
        IN (~pre.threw /\ (applied.threw \/ applied.obj = pre.obj)) =>
              /\ r.o = obj[p]
              /\ r.notes = <<>>
              /\ r.ret = IF applied.threw THEN "undefined" ELSE "result"

\* a call has just returned undefined on a replica that holds vertices and a
\* subscriber
C8_Witness ==
    /\ out.op = "callFn" /\ out.ret = "undefined" /\ out.notes = <<>>
    /\ Len(obj["p1"].hg) > 1 /\ obj["p1"].subscriptions > 0

\* every vertex of the replica of p was created by p
OnlyLocal(p) == \A i \in 2..Len(obj[p].hg) : obj[p].hg[i].peerId = p

LocalOperations(p) == [i \in 1..(Len(obj[p].hg) - 1) |-> obj[p].hg[i + 1].operation]

C9_State ==
    \A p \in Peers :
        /\ \A c \in LocalCalls(p) :
              LET pre == PreImage(obj[p], c[1])
                  applied == _applyOperation(c[1], pre.obj, CallOperation(c))
              IN (~pre.threw /\ ~applied.threw /\ applied.obj # pre.obj) =>
                    callFn(obj[p], p, c[2][1], c[2][2], c[1], now).o.hg =
                        Append(obj[p].hg,
                               newVertex(p, CallOperation(c),
                                         getFrontier(obj[p].frontier), now))
        /\ OnlyLocal(p) =>
              /\ Cardinality(obj[p].frontier) = 1
              /\ ACLAtFrontier(obj[p]) =
                    Replay(DrpTypeACL, OriginalACL, LocalOperations(p))
              /\ obj[p].hasDrp =>
                    DRPAtFrontier(obj[p]) =
                        Replay(DrpTypeDRP, OriginalDRP, LocalOperations(p))

C9_Step ==
    out'.op = "callFn" =>
        \A p \in Peers :
            obj'[p].hg # obj[p].hg =>
                /\ Len(Admitted(p)) = 1
                /\ SubSeq(obj'[p].hg, 1, Len(obj[p].hg)) = obj[p].hg
                /\ Admitted(p)[1].dependencies = getFrontier(obj[p].frontier)
                /\ Admitted(p)[1].peerId = p
                /\ obj'[p].frontier = {Admitted(p)[1].hash}

\* C9: a state-changing local call creates exactly one vertex, whose
\* dependencies are the frontier before the call and whose peerId is the local
\* peer, and the frontier is then that vertex; a replica that holds only its
\* own n vertices has a frontier of size 1 and reconstructs the state its n
\* operations give in call order.
C9_LocalCallCreatesOneVertex == []C9_State /\ [][C9_Step]_vars

\* two state-changing local calls on a fresh replica
C9_Witness ==
    /\ out.op = "callFn"
    /\ \E p \in Peers :
          /\ obj[p].hasDrp /\ OnlyLocal(p) /\ Len(obj[p].hg) = 3
          /\ obj[p].hg[2].operation.value = <<"B">>
          /\ obj[p].hg[3].operation.value = <<"A">>
          /\ DRPAtFrontier(obj[p]).obj["value"] = "A"

\* C10: the subscribers registered when vertices are admitted are each called
\* once with the admitted vertices: origin "callFn" and the one vertex of a
\* local call, origin "merge" and the vertices the batch admitted, ACL-only
\* merges included.
C10_Notified ==
    [][\A p \in Peers :
          Admitted(p) # <<>> =>
              out'.notes = [i \in 1..obj[p].subscriptions |->
                               [origin |-> out'.op, vertices |-> Admitted(p)]]]_vars

\* C10 for the replicas that registered a user DRP
C10_NotifiedWithDrp ==
    [][\A p \in Peers :
          (obj[p].hasDrp /\ Admitted(p) # <<>>) =>
              out'.notes = [i \in 1..obj[p].subscriptions |->
                               [origin |-> out'.op, vertices |-> Admitted(p)]]]_vars

\* the finality entry the engine creates for the vertex h of the object o
FinalityEntryAt(o, h) ==
    [signers |-> query_getFinalitySigners(LoadState(OriginalACL, o.aclStates[h])),
     attestations |-> {}]

\* the vertices of o that apply_local or merge admitted
AdmittedHashes(o) == Hashes(o.hg) \ {rootHash}

\* C11: every vertex admitted by apply_local or by merge, with a user DRP or
\* in ACL-only mode, has a finality entry whose signer set is the finality
\* signer set of the ACL state cached at that vertex.
C11_FinalityEntries ==
    \A p \in Peers : \A h \in AdmittedHashes(obj[p]) :
        /\ h \in DOMAIN obj[p].finality
        /\ h \in DOMAIN obj[p].aclStates
        /\ obj[p].finality[h].signers = FinalityEntryAt(obj[p], h).signers

\* C11 for the replicas that registered a user DRP
C11_FinalityEntriesWithDrp ==
    \A p \in Peers : \A h \in AdmittedHashes(obj[p]) :
        obj[p].hasDrp =>
            /\ h \in DOMAIN obj[p].finality
            /\ h \in DOMAIN obj[p].aclStates
            /\ obj[p].finality[h].signers = FinalityEntryAt(obj[p], h).signers

\* C11, second half: no step alters the signer set of an existing entry
C11_SignersStable ==
    [][\A p \in Peers : \A h \in DOMAIN obj[p].finality :
          /\ h \in DOMAIN obj'[p].finality
          /\ obj'[p].finality[h].signers = obj[p].finality[h].signers]_vars

\* the live attributes of o equal the states reconstructed at its frontier
LiveAtFrontier(o) ==
    /\ o.acl = ACLAtCut(o.hg, getFrontier(o.frontier))
    /\ o.hasDrp => (~DRPAtFrontier(o).threw /\ o.drp = DRPAtFrontier(o).obj)

\* C12: whenever apply_local or merge has returned, the attributes of the live
\* DRP and of the live ACL of the replica that ran it equal the DRP state and
\* the ACL state reconstructed at the current frontier.
C12_LiveAtFrontier ==
    [][(out'.op \in {"callFn", "merge"} /\ out'.ret # "exception") =>
          \A p \in Peers : obj'[p] # obj[p] => LiveAtFrontier(obj'[p])]_vars

\* C12 for the replicas that registered a user DRP, in every reachable state
C12_LiveAtFrontierWithDrp ==
    \A p \in Peers : obj[p].hasDrp => LiveAtFrontier(obj[p])

\* C13: for every vertex v of the graph and every dependency d of v,
\* timestamp(d) <= timestamp(v), vertices created locally on top of merged
\* vertices included.
C13_MonotoneCausalTime ==
    \A p \in Peers : \A i \in 1..Len(obj[p].hg) :
        \A d \in Range(obj[p].hg[i].dependencies) :
            /\ d \in Hashes(obj[p].hg)
            /\ VertexOf(obj[p].hg, d).timestamp <= obj[p].hg[i].timestamp

\* a replica has just created a vertex, after the clock advanced, on top of a
\* vertex it merged
C13_Witness ==
    /\ out.op = "callFn"
    /\ \E p \in Peers :
          /\ Len(obj[p].hg) = 3
          /\ obj[p].hg[2].peerId # p
          /\ obj[p].hg[3].peerId = p
          /\ obj[p].hg[3].dependencies = <<obj[p].hg[2].hash>>
          /\ obj[p].hg[2].timestamp = 0
          /\ obj[p].hg[3].timestamp = MaxTime

\* the vertices of G no vertex of G lists as a dependency
Sinks(G) ==
    {h \in Hashes(G) : \A i \in 1..Len(G) : h \notin Range(G[i].dependencies)}

C14_State == \A p \in Peers : obj[p].frontier = Sinks(obj[p].hg)

C14_Step ==
    \A p \in Peers :
        LET new == Admitted(p)
        IN obj'[p].frontier =
              (obj[p].frontier \cup {new[i].hash : i \in 1..Len(new)})
                  \ UNION {Range(new[i].dependencies) : i \in 1..Len(new)}

\* C14: the frontier is exactly the set of vertices of the graph that no
\* vertex of the graph lists as a dependency; admitting a vertex adds it as a
\* head and removes precisely its dependencies, so a vertex concurrent with
\* the heads removes none of them.
C14_FrontierIsSinks == []C14_State /\ [][C14_Step]_vars

\* a merge has just admitted a vertex concurrent with the head the replica
\* created itself: both are heads
C14_Witness ==
    /\ out.op = "merge"
    /\ \E p \in Peers :
          /\ Len(obj[p].hg) = 3
          /\ obj[p].hg[2].peerId = p
          /\ obj[p].hg[3].dependencies = <<rootHash>>
          /\ obj[p].frontier = {obj[p].hg[2].hash, obj[p].hg[3].hash}

\* ------------------------------------------------------------ construction
\* what the embedder passes to `new DRPObject(options)`: whether it supplies a
\* public credential, an ACL and a DRP
Options == [publicCredential : BOOLEAN, acl : BOOLEAN, drp : BOOLEAN]

\* `new ObjectACL({admins: [[peerId, credential]], permissionless: true})`
DefaultACL == [k \in {"permissionless", "writers"} |->
                  IF k = "permissionless" THEN TRUE ELSE {}]

\* the constructor: throws when neither an ACL nor a credential is supplied,
\* takes `options.acl ?? new ObjectACL(...)`, then sets the root states
constructor(options) ==
    IF ~options.acl /\ ~options.publicCredential
    THEN [threw |-> TRUE, o |-> NewObject(FALSE)]
    ELSE [threw |-> FALSE,
          o |-> [NewObject(options.drp) EXCEPT
                   !.acl = IF options.acl THEN OriginalACL ELSE DefaultACL,
                   !.aclStates = [h \in {rootHash} |->
                                    _getDRPState(IF options.acl THEN OriginalACL
                                                 ELSE DefaultACL)]]]

\* the embedder builds the object of p anew
ConstructWith(p, options) ==
    /\ obj' = [obj EXCEPT ![p] = IF constructor(options).threw THEN @
                                 ELSE constructor(options).o]
    /\ out' = Out("new", IF constructor(options).threw THEN "exception"
                         ELSE "result", TRUE, <<>>)
    /\ now' = now

Construct(p) == \E options \in Options : ConstructWith(p, options)

NextNew ==
    \/ \E p \in Peers : Construct(p)
    \/ \E p \in Peers : Subscribe(p)
    \/ Tick

SpecNew == Init /\ [][NextNew]_vars

ExactlyOne(options) == options.publicCredential # options.acl

\* C15: construction succeeds only when exactly one of publicCredential and
\* acl is supplied; with neither it fails and creates no object, and with both
\* it is not accepted either.
C15_ExactlyOneSupplied ==
    [][\A p \in Peers : \A options \in Options :
          ConstructWith(p, options) =>
              /\ out'.ret = "result" => ExactlyOne(options)
              /\ out'.ret = "exception" => obj' = obj]_vars

\* C15 for the case the constructor checks: with neither supplied it throws
\* and leaves no object, with either supplied it builds one
C15_NeitherSupplied ==
    [][\A p \in Peers : \A options \in Options :
          ConstructWith(p, options) =>
              /\ out'.ret = "exception" <=>
                    (~options.publicCredential /\ ~options.acl)
              /\ out'.ret = "exception" => obj' = obj]_vars

\* the entries of a cache are kept as they are
EntriesKept(before, after) ==
    \A h \in DOMAIN before : h \in DOMAIN after /\ after[h] = before[h]

\* C16: a cache entry, once written, is changed by no later apply_local,
\* merge, vertex validation, query or state reconstruction; a call or a merge
\* that admits nothing, and so only validated and reconstructed, leaves the
\* live DRP and ACL as they were.
C16_WriteOnce ==
    [][\A p \in Peers :
          /\ EntriesKept(obj[p].drpStates, obj'[p].drpStates)
          /\ EntriesKept(obj[p].aclStates, obj'[p].aclStates)
          /\ obj'[p].hg = obj[p].hg =>
                (obj'[p].drp = obj[p].drp /\ obj'[p].acl = obj[p].acl)]_vars

\* a replica that holds cached states of three vertices has just merged a
\* batch of which it admitted nothing
C16_Witness ==
    /\ out.op = "merge" /\ ~out.merged
    /\ \E p \in Peers :
          /\ obj[p].hasDrp
          /\ Len(obj[p].hg) = 3
          /\ Cardinality(DOMAIN obj[p].drpStates) = 3
          /\ obj[p].drp["value"] # ""

\* every dependency of every vertex of the batch is in the batch or in G
CausallyClosed(G, batch) ==
    \A i \in 1..Len(batch) : \A d \in Range(batch[i].dependencies) :
        d \in Hashes(G) \/ \E j \in 1..Len(batch) : batch[j].hash = d

\* the holders of a vertex agree on the ACL at its dependencies: the vertex is
\* valid when its peer is a writer there and it is not from the future
IndividuallyValid(v, clock) ==
    /\ v.hash = computeHash(v.peerId, v.operation, v.dependencies, v.timestamp)
    /\ v.timestamp <= clock
    /\ \/ v = RemoteVertex
       \/ \E q \in Peers :
             /\ v.hash \in Hashes(obj[q].hg)
             /\ query_isWriter(ACLAtCut(obj[q].hg, v.dependencies), v.peerId)

\* the longest chain of dependencies inside the batch that ends at batch[i]
RECURSIVE ChainTo(_, _)
ChainTo(batch, i) ==
    LET below == {j \in 1..Len(batch) :
                    batch[j].hash \in Range(batch[i].dependencies)}
        lengths == {ChainTo(batch, j) : j \in below}
    IN IF below = {} THEN 1
       ELSE 1 + CHOOSE n \in lengths : \A m \in lengths : m <= n

LongestChain(batch) ==
    CHOOSE n \in {ChainTo(batch, i) : i \in 1..Len(batch)} :
        \A i \in 1..Len(batch) : ChainTo(batch, i) <= n

\* the results of n successive calls of merge with the same batch
RECURSIVE Retry(_, _, _, _)
Retry(o, batch, clock, n) ==
    IF n = 0 THEN <<>>
    ELSE LET m == merge(o, batch, clock)
         IN <<m>> \o Retry(m.o, batch, clock, n - 1)

C18_LocalVerticesAcceptable ==
    [][\A p \in Peers :
         (out'.op = "callFn" /\ Len(obj'[p].hg) > Len(obj[p].hg))
         => \A i \in 1..Len(Admitted(p)) :
               /\ query_isWriter(ACLAtCut(obj'[p].hg,
                                          Admitted(p)[i].dependencies),
                                 Admitted(p)[i].peerId)
               /\ \A q \in Peers \ {p} :
                     (/\ Range(Admitted(p)[i].dependencies)
                            \subseteq Hashes(obj'[q].hg)
                      /\ Admitted(p)[i].timestamp <= now')
                     => validateVertex(obj'[q], Admitted(p)[i], now')]_vars

\* the vertices field lists exactly the vertices of the hash graph, each once
VerticesMirror(o) ==
    /\ Range(o.vertices) = Range(o.hg)
    /\ Len(o.vertices) = Cardinality(Range(o.hg))

\* C19: after a local call or a merge has returned, with a user DRP or in
\* ACL-only mode, the vertices field of the replica it changed contains
\* exactly the vertices stored in the hash graph, each exactly once.
C19_VerticesMirror ==
    [][(out'.op \in {"callFn", "merge"} /\ out'.ret # "exception")
       => \A p \in Peers :
             obj'[p] # obj[p] => VerticesMirror(obj'[p])]_vars

\* C19 for replicas that have a user DRP
C19_VerticesMirrorWithDrp ==
    [][(out'.op \in {"callFn", "merge"} /\ out'.ret # "exception")
       => \A p \in Peers :
             (obj'[p] # obj[p] /\ obj[p].hasDrp)
             => VerticesMirror(obj'[p])]_vars

\* the local call that took before to after admitted exactly one vertex, with
\* its two cache entries, its finality entry, its entry in the vertices field,
\* its notification and the rebase of the live references
CallFnComplete(before, after, notes) ==
    /\ Len(after.hg) = Len(before.hg) + 1
    /\ SubSeq(after.hg, 1, Len(before.hg)) = before.hg
    /\ LET vertex == after.hg[Len(after.hg)]
       IN /\ vertex.hash \in DOMAIN after.drpStates
          /\ vertex.hash \in DOMAIN after.aclStates
          /\ vertex.hash \in DOMAIN after.finality
          /\ after.vertices = Append(before.vertices, vertex)
          /\ notes = _notify(before, "callFn", <<vertex>>)
          /\ LiveAtFrontier(after)

\* C20: an intercepted mutating call, whether it returns or raises, with a
\* user DRP or in ACL-only mode, either leaves the object unchanged and
\* notifies nobody, or admits exactly one vertex together with its two cache
\* entries, finality entry, vertices entry, notification and live rebase.
C20_AllOrNothing ==
    [][out'.op = "callFn" =>
         \/ obj' = obj /\ out'.notes = <<>>
         \/ \E p \in Peers :
               /\ \A q \in Peers \ {p} : obj'[q] = obj[q]
               /\ CallFnComplete(obj[p], obj'[p], out'.notes)]_vars

\* C20 for calls on replicas that have a user DRP
C20_AllOrNothingWithDrp ==
    [][out'.op = "callFn" =>
         \/ obj' = obj /\ out'.notes = <<>>
         \/ \E p \in Peers :
               /\ \A q \in Peers \ {p} : obj'[q] = obj[q]
               /\ ~obj[p].hasDrp \/ CallFnComplete(obj[p], obj'[p], out'.notes)]_vars

====
